---- MODULE Spec2Model ----
(***************************************************************************)
(* Header and footer include components (components/header.js,             *)
(* components/footer.js) run against a document.                           *)
(*                                                                         *)
(* The document is a sequence of element nodes in tree order.  A node is   *)
(* identified by a key [n, g]: n is the element's name in its markup and g *)
(* the number of the innerHTML assignment that created it (0 for elements  *)
(* of the host page), so every assignment of innerHTML creates elements    *)
(* that are distinct from the ones it discards.                            *)
(*                                                                         *)
(* Host pages are documents with unique ids: a page that holds the header  *)
(* placeholder holds no element of its own with the ids the header markup  *)
(* defines (menuBtn, mobileMenu); a page without the placeholder may.      *)
(***************************************************************************)
EXTENDS Integers, Sequences, FiniteSets, TLC

\* ------------------------------------------------------------------ bounds
\* The page calls a mount function itself only while the function has run
\* fewer times than this.
MaxHeaderCalls == 2
MaxFooterCalls == 1
\* toggle clicks counted in a row
MaxClicks == 3

MaxCalls(c) == IF c = "header" THEN MaxHeaderCalls ELSE MaxFooterCalls

\* ------------------------------------------------------------- the markup
Key(name, gen) == [n |-> name, g |-> gen]

\* what a lookup returns when no element matches
Null == [key |-> Key("null", 0), tag |-> "", id |-> "", anc |-> << >>, text |-> ""]

HeaderContainerId == "header-container"
FooterContainerId == "footer-container"
\* the text of the footer's paragraph (its first character is the copyright sign)
CopyrightText == "(c) 2025 Jose Aristizabal. All Rights Reserved."

\* One element of a markup template: name, tag, id, the names of its
\* ancestors inside the template (nearest first), whether its class list
\* holds "hidden", its own text.
El(name, tag, id, up, hid, text) ==
    [name |-> name, tag |-> tag, id |-> id, up |-> up, hid |-> hid, text |-> text]

\* headerHTML with the brand block not wrapped in a link
HeaderHTML_noBrandLink ==
    << El("hdr",         "header", "",           << >>,                               FALSE, ""),
       El("hdrRow",      "div",    "",           <<"hdr">>,                           FALSE, ""),
       El("brand",       "div",    "",           <<"hdrRow", "hdr">>,                 FALSE, ""),
       El("menuBtn",     "button", "menuBtn",    <<"hdrRow", "hdr">>,                 FALSE, ""),
       El("mobileMenu",  "nav",    "mobileMenu", <<"hdr">>,                           TRUE,  ""),
       El("linkHome",    "a",      "",           <<"mobileMenu", "hdr">>,             FALSE, "Home") >>

\* headerHTML, in document order.
HeaderHTML ==
    << El("hdr",         "header", "",           << >>,                               FALSE, ""),
       El("hdrRow",      "div",    "",           <<"hdr">>,                           FALSE, ""),
       El("brand",       "a",      "",           <<"hdrRow", "hdr">>,                 FALSE, ""),
       El("brandBar",    "div",    "",           <<"brand", "hdrRow", "hdr">>,        FALSE, ""),
       El("brandText",   "div",    "",           <<"brand", "hdrRow", "hdr">>,        FALSE, ""),
       El("brandName",   "h1",     "",           <<"brandText", "brand", "hdrRow", "hdr">>, FALSE, "Jose Aristizabal"),
       El("brandRole",   "p",      "",           <<"brandText", "brand", "hdrRow", "hdr">>, FALSE, "Solution Architect"),
       El("menuBtn",     "button", "menuBtn",    <<"hdrRow", "hdr">>,                 FALSE, ""),
       El("menuIcon",    "span",   "",           <<"menuBtn", "hdrRow", "hdr">>,      FALSE, "menu"),
       El("mobileMenu",  "nav",    "mobileMenu", <<"hdr">>,                           TRUE,  ""),
       El("menuList",    "div",    "",           <<"mobileMenu", "hdr">>,             FALSE, ""),
       El("linkHome",    "a",      "",           <<"menuList", "mobileMenu", "hdr">>, FALSE, "Home"),
       El("linkContact", "a",      "",           <<"menuList", "mobileMenu", "hdr">>, FALSE, "Contact") >>

\* footerHTML, in document order.
FooterHTML ==
    << El("ftr",       "footer", "", << >>,                 FALSE, ""),
       El("ftrRow",    "div",    "", <<"ftr">>,             FALSE, ""),
       El("copyright", "p",      "", <<"ftrRow", "ftr">>,   FALSE, CopyrightText) >>

\* Elements a host page may hold, in the order the parser meets them when
\* they are present.  A page element of its own with id menuBtn, and one
\* with id mobileMenu that holds a link.
PageHTML ==
    << El(HeaderContainerId, "div",    HeaderContainerId, << >>,            FALSE, ""),
       El(FooterContainerId, "div",    FooterContainerId, << >>,            FALSE, ""),
       El("pageBtn",         "button", "menuBtn",         << >>,            FALSE, ""),
       El("pageMenu",        "nav",    "mobileMenu",      << >>,            TRUE,  ""),
       El("pageLink",        "a",      "",                <<"pageMenu">>,   FALSE, "") >>

\* ------------------------------------------------------ sequence helpers
Range(s) == { s[i] : i \in 1..Len(s) }

MapSeq(s, F(_)) == [ i \in 1..Len(s) |-> F(s[i]) ]

\* ------------------------------------------------------------- the nodes
\* The node an element of a template becomes when it is created by
\* assignment number gen below the node `under` (Null: below the body).
Node(e, gen, under) ==
    [ key  |-> Key(e.name, gen),
      tag  |-> e.tag,
      id   |-> e.id,
      anc  |-> MapSeq(e.up, LAMBDA a : Key(a, gen))
               \o (IF under = Null THEN << >> ELSE <<under.key>> \o under.anc),
      text |-> e.text ]

Parse(html, gen, under) == MapSeq(html, LAMBDA e : Node(e, gen, under))

\* the class lists read without the class "hidden"
HiddenOf_none(html, gen) == {}

\* the keys of the elements html gives the class "hidden"
HiddenOf(html, gen) ==
    { Key(html[i].name, gen) : i \in { j \in 1..Len(html) : html[j].hid } }

\* --------------------------------------------------- document operations
\* A document state d is a record:
\*   dom      the nodes in tree order
\*   hidden   the keys of the elements whose class list holds "hidden"
\*   handlers the click listeners registered, in registration order; a
\*            listener is [target, op, panel]: registered on element target,
\*            it applies classList.<op>('hidden') to element panel
\*   writes   per placeholder id, the number of assignments to its innerHTML
\*   calls    per component, the number of executions of its mount function
\*   raised   whether an exception was raised
Components == {"header", "footer"}

InDom(d, k) == \E i \in 1..Len(d.dom) : d.dom[i].key = k

NodeOf(d, k) == d.dom[CHOOSE i \in 1..Len(d.dom) : d.dom[i].key = k]

\* document.getElementById(id): the first element in tree order, or null
GetElementById(d, id) ==
    LET m == SelectSeq(d.dom, LAMBDA x : x.id = id)
    IN  IF m = << >> THEN Null ELSE m[1]

HasAncestorWithId(d, x, id) ==
    \E i \in 1..Len(d.dom) : d.dom[i].key \in Range(x.anc) /\ d.dom[i].id = id

\* document.querySelectorAll('a'): every link of the document
QuerySelectorAll_a(d) ==
    SelectSeq(d.dom, LAMBDA x : x.tag = "a")

\* document.querySelector('#mobileMenu a'): the first match only
QuerySelector_mobileMenu_a(d) ==
    LET m == SelectSeq(d.dom, LAMBDA x : x.tag = "a" /\ HasAncestorWithId(d, x, "mobileMenu"))
    IN  IF m = << >> THEN m ELSE <<m[1]>>

\* document.querySelectorAll('#mobileMenu a'), in tree order
QuerySelectorAll_mobileMenu_a(d) ==
    SelectSeq(d.dom, LAMBDA x : x.tag = "a" /\ HasAncestorWithId(d, x, "mobileMenu"))

\* an uncaught TypeError: the running function stops where it is
Raise(d) == [ d EXCEPT !.raised = TRUE ]

\* container.innerHTML += html: the elements parsed from html are added
\* after what the container holds
AppendInnerHTML(d, container, html) ==
    IF container = Null THEN Raise(d) ELSE
    LET gen  == d.writes[container.id] + 1
        upto == Len(SelectSeq(d.dom, LAMBDA x : x.key = container.key
                                                \/ container.key \in Range(x.anc)))
        at   == CHOOSE i \in 1..Len(d.dom) : d.dom[i].key = container.key
    IN  [ d EXCEPT
            !.dom    = SubSeq(d.dom, 1, at + upto - 1) \o Parse(html, gen, container)
                         \o SubSeq(d.dom, at + upto, Len(d.dom)),
            !.hidden = d.hidden \cup HiddenOf(html, gen),
            !.writes = [ d.writes EXCEPT ![container.id] = gen ] ]

\* container.innerHTML = html: the container's descendants are discarded
\* and the elements parsed from html take their place.  Setting a property
\* of null raises.
SetInnerHTML(d, container, html) ==
    IF container = Null THEN Raise(d) ELSE
    LET gen  == d.writes[container.id] + 1
        kept == SelectSeq(d.dom, LAMBDA x : container.key \notin Range(x.anc))
        at   == CHOOSE i \in 1..Len(kept) : kept[i].key = container.key
        gone == { x.key : x \in { y \in Range(d.dom) : container.key \in Range(y.anc) } }
    IN  [ d EXCEPT
            !.dom    = SubSeq(kept, 1, at) \o Parse(html, gen, container)
                         \o SubSeq(kept, at + 1, Len(kept)),
            !.hidden = (d.hidden \ gone) \cup HiddenOf(html, gen),
            !.writes = [ d.writes EXCEPT ![container.id] = gen ] ]

\* target.addEventListener('click', () => panel.classList.<op>('hidden'))
AddEventListener(d, target, op, panel) ==
    IF target = Null THEN Raise(d) ELSE
    [ d EXCEPT !.handlers = Append(d.handlers,
                  [target |-> target.key, op |-> op, panel |-> panel.key]) ]

RECURSIVE AddLinkListeners(_, _, _)
\* forEach(link => link.addEventListener('click', ... classList.add('hidden')))
AddLinkListeners(d, links, panel) ==
    IF links = << >> THEN d
    ELSE AddLinkListeners(AddEventListener(d, Head(links), "add", panel),
                          Tail(links), panel)

\* loadHeader that returns at once when the placeholder is filled already
LoadHeader_skipIfMounted(d) ==
    LET d0 == [ d EXCEPT !.calls = [ d.calls EXCEPT !["header"] = @ + 1 ] ]
        headerContainer == GetElementById(d0, HeaderContainerId)
    IN  IF headerContainer = Null THEN d0
        ELSE IF \E x \in Range(d0.dom) : headerContainer.key \in Range(x.anc)
        THEN d0
        ELSE LET d1         == SetInnerHTML(d0, headerContainer, HeaderHTML)
                 menuBtn    == GetElementById(d1, "menuBtn")
                 mobileMenu == GetElementById(d1, "mobileMenu")
             IN  IF menuBtn # Null /\ mobileMenu # Null
                 THEN AddLinkListeners(
                          AddEventListener(d1, menuBtn, "toggle", mobileMenu),
                          QuerySelectorAll_mobileMenu_a(d1), mobileMenu)
                 ELSE d1

\* loadHeader that keeps the markup of a placeholder it has filled before
\* and wires the menu again
LoadHeader_keepsMarkup(d) ==
    LET d0 == [ d EXCEPT !.calls = [ d.calls EXCEPT !["header"] = @ + 1 ] ]
        headerContainer == GetElementById(d0, HeaderContainerId)
    IN  IF headerContainer = Null THEN d0
        ELSE LET d1         == IF \E x \in Range(d0.dom) :
                                     headerContainer.key \in Range(x.anc)
                               THEN d0
                               ELSE SetInnerHTML(d0, headerContainer, HeaderHTML)
                 menuBtn    == GetElementById(d1, "menuBtn")
                 mobileMenu == GetElementById(d1, "mobileMenu")
             IN  IF menuBtn # Null /\ mobileMenu # Null
                 THEN AddLinkListeners(
                          AddEventListener(d1, menuBtn, "toggle", mobileMenu),
                          QuerySelectorAll_mobileMenu_a(d1), mobileMenu)
                 ELSE d1

\* loadHeader with the menu wiring outside the test of the placeholder
LoadHeader_wiringUnguarded(d) ==
    LET d0 == [ d EXCEPT !.calls = [ d.calls EXCEPT !["header"] = @ + 1 ] ]
        headerContainer == GetElementById(d0, HeaderContainerId)
        d1         == IF headerContainer = Null THEN d0
                      ELSE SetInnerHTML(d0, headerContainer, HeaderHTML)
        menuBtn    == GetElementById(d1, "menuBtn")
        mobileMenu == GetElementById(d1, "mobileMenu")
    IN  IF menuBtn # Null /\ mobileMenu # Null
        THEN AddLinkListeners(
                 AddEventListener(d1, menuBtn, "toggle", mobileMenu),
                 QuerySelectorAll_mobileMenu_a(d1), mobileMenu)
        ELSE d1

\* function loadHeader()
LoadHeader(d) ==
    LET d0 == [ d EXCEPT !.calls = [ d.calls EXCEPT !["header"] = @ + 1 ] ]
        headerContainer == GetElementById(d0, HeaderContainerId)
    IN  IF headerContainer = Null THEN d0
        ELSE LET d1         == SetInnerHTML(d0, headerContainer, HeaderHTML)
                 menuBtn    == GetElementById(d1, "menuBtn")
                 mobileMenu == GetElementById(d1, "mobileMenu")
             IN  IF menuBtn # Null /\ mobileMenu # Null
                 THEN AddLinkListeners(
                          AddEventListener(d1, menuBtn, "toggle", mobileMenu),
                          QuerySelectorAll_mobileMenu_a(d1), mobileMenu)
                 ELSE d1

\* loadFooter looking up the header's placeholder
LoadFooter_wrongContainer(d) ==
    LET d0 == [ d EXCEPT !.calls = [ d.calls EXCEPT !["footer"] = @ + 1 ] ]
        footerContainer == GetElementById(d0, HeaderContainerId)
    IN  IF footerContainer = Null THEN d0
        ELSE SetInnerHTML(d0, footerContainer, FooterHTML)

\* loadFooter without the test of the placeholder
LoadFooter_unguarded(d) ==
    LET d0 == [ d EXCEPT !.calls = [ d.calls EXCEPT !["footer"] = @ + 1 ] ]
        footerContainer == GetElementById(d0, FooterContainerId)
    IN  SetInnerHTML(d0, footerContainer, FooterHTML)

\* function loadFooter()
LoadFooter(d) ==
    LET d0 == [ d EXCEPT !.calls = [ d.calls EXCEPT !["footer"] = @ + 1 ] ]
        footerContainer == GetElementById(d0, FooterContainerId)
    IN  IF footerContainer = Null THEN d0
        ELSE SetInnerHTML(d0, footerContainer, FooterHTML)

Mount(c, d) == IF c = "header" THEN LoadHeader(d) ELSE LoadFooter(d)

\* the link listener written with classList.toggle
RunHandler_toggleForAdd(d, h) ==
    [ d EXCEPT !.hidden = IF h.panel \in d.hidden
                          THEN d.hidden \ {h.panel}
                          ELSE d.hidden \cup {h.panel} ]

\* the link listener written to take the panel out of the document
RunHandler_removesPanel(d, h) ==
    IF h.op = "toggle"
    THEN [ d EXCEPT !.hidden = IF h.panel \in d.hidden
                               THEN d.hidden \ {h.panel}
                               ELSE d.hidden \cup {h.panel} ]
    ELSE [ d EXCEPT !.dom = SelectSeq(d.dom, LAMBDA x :
                               x.key # h.panel /\ h.panel \notin Range(x.anc)) ]

\* the toggle listener written with classList.remove
RunHandler_removeForToggle(d, h) ==
    IF h.op = "toggle"
    THEN [ d EXCEPT !.hidden = d.hidden \ {h.panel} ]
    ELSE [ d EXCEPT !.hidden = d.hidden \cup {h.panel} ]

\* the body of a click listener
RunHandler(d, h) ==
    IF h.op = "toggle"
    THEN [ d EXCEPT !.hidden = IF h.panel \in d.hidden
                               THEN d.hidden \ {h.panel}
                               ELSE d.hidden \cup {h.panel} ]
    ELSE [ d EXCEPT !.hidden = d.hidden \cup {h.panel} ]

RECURSIVE RunHandlers(_, _)
RunHandlers(d, hs) ==
    IF hs = << >> THEN d ELSE RunHandlers(RunHandler(d, Head(hs)), Tail(hs))

RECURSIVE Dispatch(_, _)
\* a click event travelling along path (the target, then its ancestors,
\* nearest first): the listeners of each element run in registration order
Dispatch(d, path) ==
    IF path = << >> THEN d
    ELSE Dispatch(RunHandlers(d, SelectSeq(d.handlers,
                                  LAMBDA h : h.target = Head(path))),
                  Tail(path))

\* ------------------------------------------------------------- the state
VARIABLES
    page,        \* the names of the elements of PageHTML the host page holds
    dom,         \* the document's nodes, in tree order
    hidden,      \* keys of the elements whose class list holds "hidden"
    handlers,    \* click listeners registered, in registration order
    writes,      \* assignments to innerHTML, per placeholder id
    calls,       \* executions of the mount function, per component
    raised,      \* an exception was raised by a mount function
    readyState,  \* document.readyState
    fired,       \* DOMContentLoaded has been dispatched
    listeners,   \* DOMContentLoaded listeners of the document, in order
    evalAt,      \* per component script: document.readyState when it was
                 \* evaluated, "none" before
    foundAtEval, \* per component script: its placeholder was in the document
                 \* when the script was evaluated
    toggles,     \* clicks on the toggle button since the last header mount
                 \* or click on a panel link, whichever came last
    pure,        \* no click but on the toggle button since the last header mount
    lastClick    \* the last click since the last header mount: its kind
                 \* and whether the mobile panel was visible when it was
                 \* made; before any click: kind "none" and whether the panel
                 \* was visible when the header was mounted

docVars == <<dom, hidden, handlers, writes, calls, raised>>
vars == <<page, dom, hidden, handlers, writes, calls, raised,
          readyState, fired, listeners, evalAt, foundAtEval,
                   toggles, pure, lastClick>>

Doc == [ dom |-> dom, hidden |-> hidden, handlers |-> handlers,
         writes |-> writes, calls |-> calls, raised |-> raised ]

SetDoc(d) ==
    /\ dom' = d.dom
    /\ hidden' = d.hidden
    /\ handlers' = d.handlers
    /\ writes' = d.writes
    /\ calls' = d.calls
    /\ raised' = d.raised

PageNames == { PageHTML[i].name : i \in 1..Len(PageHTML) }

\* A host page: pageLink is the link inside pageMenu; ids are unique once
\* the header is mounted.
IsPage(p) ==
    /\ ("pageLink" \in p) <=> ("pageMenu" \in p)
    /\ HeaderContainerId \in p => p \cap {"pageBtn", "pageMenu"} = {}

Pages == { p \in SUBSET PageNames : IsPage(p) }

NoClick == [kind |-> "none", open |-> FALSE]

Init ==
    /\ page \in Pages
    /\ dom = << >>
    /\ hidden = {}
    /\ handlers = << >>
    /\ writes = [ id \in {HeaderContainerId, FooterContainerId} |-> 0 ]
    /\ calls = [ c \in Components |-> 0 ]
    /\ raised = FALSE
    /\ readyState = "loading"
    /\ fired = FALSE
    /\ listeners = << >>
    /\ evalAt = [ c \in Components |-> "none" ]
    /\ foundAtEval = [ c \in Components |-> FALSE ]
    /\ toggles = 0
    /\ pure = TRUE
    /\ lastClick = NoClick

\* --------------------------------------------------------------- actions
PagePos(name) == CHOOSE i \in 1..Len(PageHTML) : PageHTML[i].name = name

\* An element of the host page enters the document (the parser reaches it,
\* or a script of the page inserts it): what getElementById finds later.
\* pageMenu enters with the link it holds.
InsertElement(name) ==
    /\ name \in page \ {"pageLink"}
    /\ ~ InDom(Doc, Key(name, 0))
    /\ LET html  == SelectSeq(PageHTML,
                       LAMBDA e : e.name = name \/ name \in Range(e.up))
           \* the elements of the page that precede it in the page's markup,
           \* with what they hold
           front == SelectSeq(dom, LAMBDA x :
                       LET top == IF x.anc = << >> THEN x.key.n
                                  ELSE x.anc[Len(x.anc)].n
                       IN  PagePos(top) < PagePos(name))
       IN  /\ dom' = front \o Parse(html, 0, Null)
                        \o SubSeq(dom, Len(front) + 1, Len(dom))
           /\ hidden' = hidden \cup HiddenOf(html, 0)
    /\ UNCHANGED <<page, handlers, writes, calls, raised, readyState, fired,
                   listeners, evalAt, foundAtEval,
                   toggles, pure, lastClick>>

\* the mobile panel is in the document and its class list lacks "hidden"
MenuVisible(d) ==
    LET m == GetElementById(d, "mobileMenu")
    IN  m # Null /\ m.key \notin d.hidden

\* the id of the placeholder that the mount function of c looks up
PlaceholderId(c) == IF c = "header" THEN HeaderContainerId ELSE FooterContainerId

\* the count of clicks starts again when the header placeholder is written
Recount(d) ==
    IF d.writes[HeaderContainerId] # writes[HeaderContainerId]
    THEN /\ toggles' = 0
         /\ pure' = TRUE
         /\ lastClick' = [kind |-> "none", open |-> MenuVisible(Doc)]
    ELSE UNCHANGED <<toggles, pure, lastClick>>

\* the test written the wrong way round
ShouldDefer_inverted(rs) == rs # "loading"

\* the test written against the last state instead of the first
ShouldDefer_untilComplete(rs) == rs # "complete"

\* if (document.readyState === 'loading')
ShouldDefer(rs) == rs = "loading"

\* the top level with a misspelt event name: while the document is loading
\* the mount function is registered for an event that is never dispatched
Evaluate_wrongEvent(c) ==
    /\ evalAt[c] = "none"
    /\ evalAt' = [ evalAt EXCEPT ![c] = readyState ]
    /\ foundAtEval' = [ foundAtEval EXCEPT
                           ![c] = InDom(Doc, Key(PlaceholderId(c), 0)) ]
    /\ IF ShouldDefer(readyState)
       THEN /\ UNCHANGED listeners
            /\ UNCHANGED docVars
            /\ UNCHANGED <<toggles, pure, lastClick>>
       ELSE /\ SetDoc(Mount(c, Doc))
            /\ Recount(Mount(c, Doc))
            /\ UNCHANGED listeners
    /\ UNCHANGED <<page, readyState, fired>>

\* the top level with the lookup moved out of the mount function: a script
\* that finds no placeholder when it is evaluated neither registers nor
\* calls its mount function
Evaluate_lookupAtEval(c) ==
    /\ evalAt[c] = "none"
    /\ evalAt' = [ evalAt EXCEPT ![c] = readyState ]
    /\ foundAtEval' = [ foundAtEval EXCEPT
                           ![c] = InDom(Doc, Key(PlaceholderId(c), 0)) ]
    /\ IF ~ InDom(Doc, Key(PlaceholderId(c), 0))
       THEN /\ UNCHANGED listeners
            /\ UNCHANGED docVars
            /\ UNCHANGED <<toggles, pure, lastClick>>
       ELSE IF ShouldDefer(readyState)
       THEN /\ listeners' = Append(listeners, c)
            /\ UNCHANGED docVars
            /\ UNCHANGED <<toggles, pure, lastClick>>
       ELSE /\ SetDoc(Mount(c, Doc))
            /\ Recount(Mount(c, Doc))
            /\ UNCHANGED listeners
    /\ UNCHANGED <<page, readyState, fired>>

\* the top level without its else: the mount function is registered while
\* the document is loading and called in every case
Evaluate_noElse(c) ==
    /\ evalAt[c] = "none"
    /\ evalAt' = [ evalAt EXCEPT ![c] = readyState ]
    /\ foundAtEval' = [ foundAtEval EXCEPT
                           ![c] = InDom(Doc, Key(PlaceholderId(c), 0)) ]
    /\ listeners' = IF ShouldDefer(readyState) THEN Append(listeners, c)
                    ELSE listeners
    /\ SetDoc(Mount(c, Doc))
    /\ Recount(Mount(c, Doc))
    /\ UNCHANGED <<page, readyState, fired>>

\* The top level of a component script: register the mount function for
\* DOMContentLoaded while the document is loading, else call it.
Evaluate(c) ==
    /\ evalAt[c] = "none"
    /\ evalAt' = [ evalAt EXCEPT ![c] = readyState ]
    /\ foundAtEval' = [ foundAtEval EXCEPT
                           ![c] = InDom(Doc, Key(PlaceholderId(c), 0)) ]
    /\ IF ShouldDefer(readyState)
       THEN /\ listeners' = Append(listeners, c)
            /\ UNCHANGED docVars
            /\ UNCHANGED <<toggles, pure, lastClick>>
       ELSE /\ SetDoc(Mount(c, Doc))
            /\ Recount(Mount(c, Doc))
            /\ UNCHANGED listeners
    /\ UNCHANGED <<page, readyState, fired>>

\* the parser reaches the end of the document
ParsingDone ==
    /\ readyState = "loading"
    /\ readyState' = "interactive"
    /\ UNCHANGED <<page, dom, hidden, handlers, writes, calls, raised, fired,
                   listeners, evalAt, foundAtEval,
                   toggles, pure, lastClick>>

RECURSIVE RunListeners(_, _)
\* the listeners of an event run in registration order
RunListeners(d, ls) ==
    IF ls = << >> THEN d ELSE RunListeners(Mount(Head(ls), d), Tail(ls))

\* DOMContentLoaded is dispatched, once
FireDOMContentLoaded ==
    /\ readyState = "interactive"
    /\ ~ fired
    /\ fired' = TRUE
    /\ SetDoc(RunListeners(Doc, listeners))
    /\ Recount(RunListeners(Doc, listeners))
    /\ UNCHANGED <<page, readyState, listeners, evalAt,
                   foundAtEval>>

\* the subresources are loaded
WindowLoad ==
    /\ readyState = "interactive"
    /\ fired
    /\ readyState' = "complete"
    /\ UNCHANGED <<page, dom, hidden, handlers, writes, calls, raised, fired,
                   listeners, evalAt, foundAtEval,
                   toggles, pure, lastClick>>

\* what a click on node x is to the header: on the toggle button (or inside
\* it), on a link inside the mobile panel, on a link outside the panel (the
\* brand link, or inside it), or elsewhere
ClickKind(d, x) ==
    IF x.id = "menuBtn" \/ HasAncestorWithId(d, x, "menuBtn") THEN "toggle"
    ELSE IF \E y \in Range(d.dom) :
              /\ y.key = x.key \/ y.key \in Range(x.anc)
              /\ y.tag = "a"
              /\ HasAncestorWithId(d, y, "mobileMenu") THEN "link"
    ELSE IF \E y \in Range(d.dom) :
              /\ y.key = x.key \/ y.key \in Range(x.anc)
              /\ y.tag = "a" THEN "brand"
    ELSE "other"

\* the user clicks an element of the document
Click(k) ==
    /\ InDom(Doc, k)
    /\ LET x    == NodeOf(Doc, k)
           kind == ClickKind(Doc, x)
       IN  /\ kind = "toggle" => toggles < MaxClicks
           /\ SetDoc(Dispatch(Doc, <<k>> \o x.anc))
           /\ toggles' = CASE kind = "toggle" -> toggles + 1
                            [] kind = "link"   -> 0
                            [] OTHER           -> toggles
           /\ pure' = (pure /\ kind = "toggle")
           /\ lastClick' = [kind |-> kind, open |-> MenuVisible(Doc)]
    /\ UNCHANGED <<page, readyState, fired, listeners, evalAt,
                   foundAtEval>>

\* the host page calls the global function loadHeader / loadFooter itself
CallMount(c) ==
    /\ evalAt[c] # "none"
    /\ calls[c] < MaxCalls(c)
    /\ SetDoc(Mount(c, Doc))
    /\ Recount(Mount(c, Doc))
    /\ UNCHANGED <<page, readyState, fired, listeners, evalAt,
                   foundAtEval>>

Keys == { x.key : x \in Range(dom) }

\* a page load: parsing, script evaluation, the ready signal, clicks
NextLoad ==
    \/ \E name \in PageNames : InsertElement(name)
    \/ \E c \in Components : Evaluate(c)
    \/ ParsingDone
    \/ FireDOMContentLoaded
    \/ WindowLoad
    \/ \E k \in Keys : Click(k)

SpecLoad == Init /\ [][NextLoad]_vars

\* a page load in which the page also calls the mount functions itself
Next ==
    \/ \E name \in PageNames : InsertElement(name)
    \/ \E c \in Components : Evaluate(c)
    \/ ParsingDone
    \/ FireDOMContentLoaded
    \/ WindowLoad
    \/ \E k \in Keys : Click(k)
    \/ \E c \in Components : CallMount(c)

Spec == Init /\ [][Next]_vars

TypeOK ==
    /\ readyState \in {"loading", "interactive", "complete"}
    /\ fired \in BOOLEAN
    /\ raised \in BOOLEAN
    /\ page \in Pages
    /\ evalAt \in [Components -> {"none", "loading", "interactive", "complete"}]
    /\ foundAtEval \in [Components -> BOOLEAN]
    /\ Range(listeners) \subseteq Components
    /\ toggles \in 0..MaxClicks
    /\ pure \in BOOLEAN

\* ---------------------------------------------------------- observations
HeaderKey == Key(HeaderContainerId, 0)
FooterKey == Key(FooterContainerId, 0)

\* the nodes below the element with key k, in tree order
Content(k) == SelectSeq(dom, LAMBDA x : k \in Range(x.anc))

Count(s, Test(_)) == Len(SelectSeq(s, Test))

IsToggleButton(x) == x.tag = "button" /\ x.id = "menuBtn"
IsMobilePanel(x) == x.tag = "nav" /\ x.id = "mobileMenu"
\* a link that is not inside a mobile panel
IsBrandLink(x) == x.tag = "a" /\ ~ HasAncestorWithId(Doc, x, "mobileMenu")

MenuOpen == MenuVisible(Doc)

\* ------------------------------------------------------------------- C1
\* C1: a component script evaluated while the document is loading does not
\* run its mount function during the evaluation, registers it once for the
\* ready signal, and the function has run exactly once when the signal has
\* fired; a script evaluated later (readyState interactive or complete) has
\* run its mount function once when the evaluation ends and has registered
\* no listener.  (Page loads: each script is evaluated once, no other calls.)
C1_MountScheduling ==
    \A c \in Components :
        /\ evalAt[c] = "loading" =>
              /\ calls[c] = (IF fired THEN 1 ELSE 0)
              /\ Count(listeners, LAMBDA l : l = c) = 1
        /\ evalAt[c] \in {"interactive", "complete"} =>
              /\ calls[c] = 1
              /\ c \notin Range(listeners)
        /\ evalAt[c] = "none" => calls[c] = 0 /\ c \notin Range(listeners)

\* the header was deferred and has run on the signal; the footer script came
\* after the signal and has run at once
C1_Witness ==
    /\ evalAt["header"] = "loading" /\ fired /\ calls["header"] = 1
    /\ writes[HeaderContainerId] = 1
    /\ evalAt["footer"] = "complete" /\ calls["footer"] = 1
    /\ writes[FooterContainerId] = 1
    /\ listeners = <<"header">>

\* ------------------------------------------------------------------- C2
HeaderContentOK ==
    /\ Content(HeaderKey) # << >>
    /\ Count(Content(HeaderKey), IsToggleButton) = 1
    /\ Count(Content(HeaderKey), IsBrandLink) = 1

\* C2: every step in which loadHeader runs on a document that holds the
\* header placeholder ends with the placeholder's content non-empty and
\* holding exactly one toggle button and exactly one brand link.
C2_HeaderContent ==
    [][ (calls'["header"] > calls["header"] /\ InDom(Doc, HeaderKey))
          => HeaderContentOK' ]_vars

\* loadHeader has run on a page with the placeholder in the document
C2_Witness ==
    /\ calls["header"] >= 1
    /\ writes[HeaderContainerId] = calls["header"]
    /\ HeaderContentOK

\* ------------------------------------------------------------------- C3
\* what the document holds of the host page itself, and its class lists
IsPageNode(x) == x.key.g = 0
PageHidden == { x.key : x \in { y \in Range(dom) : y.key = Key("pageMenu", 0) } }

\* C3: while the document lacks the header placeholder, whatever calls of
\* loadHeader have happened, no exception was raised, the header
\* placeholder was never written, no click listener is registered on any
\* element (the page's own menuBtn / mobileMenu elements included), and
\* the document holds nothing but the page's own elements, with their own
\* class lists, and what the footer mounted.
C3_NoHeaderPlaceholder ==
    ~ InDom(Doc, HeaderKey) =>
        /\ ~ raised
        /\ writes[HeaderContainerId] = 0
        /\ handlers = << >>
        /\ \A x \in Range(dom) : IsPageNode(x) \/ FooterKey \in Range(x.anc)
        /\ hidden = PageHidden

\* loadHeader has run twice on a page without the placeholder whose own
\* toggle button and mobile panel are in the document
C3_Witness ==
    /\ HeaderContainerId \notin page
    /\ InDom(Doc, Key("pageBtn", 0)) /\ InDom(Doc, Key("pageMenu", 0))
    /\ evalAt["header"] = "complete"
    /\ calls["header"] = 2

\* ------------------------------------------------------------------- C4
Odd(n) == n % 2 = 1

\* C4: after a header mount, as long as every click since the mount was a
\* click on the toggle button, the mobile panel is visible exactly when
\* the number of those clicks is odd (hidden, as at the mount, when even).
C4_ToggleParity ==
    (writes[HeaderContainerId] >= 1 /\ pure) => (MenuOpen <=> Odd(toggles))

\* two toggle clicks after a mount: the panel was visible before the second
\* and is hidden again
C4_Witness ==
    /\ writes[HeaderContainerId] >= 1 /\ pure /\ toggles = 2
    /\ lastClick = [kind |-> "toggle", open |-> TRUE]
    /\ ~ MenuOpen

\* ------------------------------------------------------------------- C5
\* C5: when the last click was on a link inside the mobile panel and the
\* panel was visible at that click, the panel is hidden, whatever clicks
\* came before.
C5_LinkClickHides ==
    (lastClick.kind = "link" /\ lastClick.open) => ~ MenuOpen

\* a link of the open panel was clicked
C5_Witness ==
    /\ writes[HeaderContainerId] >= 1
    /\ lastClick = [kind |-> "link", open |-> TRUE]
    /\ ~ pure /\ toggles = 0
    /\ ~ MenuOpen

\* ------------------------------------------------------------------- C6
FooterHasCopyright ==
    Count(Content(FooterKey), LAMBDA x : x.text = CopyrightText) >= 1

FooterUntouched ==
    /\ ~ raised
    /\ writes[FooterContainerId] = 0
    /\ \A x \in Range(dom) : IsPageNode(x) \/ HeaderKey \in Range(x.anc)
    /\ \A x \in Range(dom) : x.text # CopyrightText

\* C6: every step in which loadFooter runs on a document that holds the
\* footer placeholder ends with the copyright text in the placeholder's
\* content; and while the document lacks the placeholder, whatever calls of
\* loadFooter have happened, no exception was raised and the document
\* holds nothing but the page's own elements and what the header mounted.
C6_Footer ==
    [][ /\ (calls'["footer"] > calls["footer"] /\ InDom(Doc, FooterKey))
              => FooterHasCopyright'
        /\ (~ InDom(Doc, FooterKey))' => FooterUntouched' ]_vars

\* loadFooter has run on a page with the placeholder in the document
C6_Witness ==
    /\ calls["footer"] >= 1
    /\ writes[FooterContainerId] = calls["footer"]
    /\ FooterHasCopyright

\* ------------------------------------------------------------------- C7
\* C7: once loadHeader has written the header placeholder twice or more,
\* the document holds exactly one toggle button and exactly one mobile
\* panel, and the placeholder holds the markup of the last write only.
C7_RemountOverwrites ==
    writes[HeaderContainerId] >= 2 =>
        /\ Count(dom, IsToggleButton) = 1
        /\ Count(dom, IsMobilePanel) = 1
        /\ Content(HeaderKey)
             = Parse(HeaderHTML, writes[HeaderContainerId], NodeOf(Doc, HeaderKey))

\* loadHeader has written the placeholder twice
C7_Witness ==
    /\ writes[HeaderContainerId] = 2 /\ calls["header"] = 2
    /\ Count(dom, IsToggleButton) = 1
    /\ Count(dom, IsMobilePanel) = 1

\* ------------------------------------------------------------------- C8
\* C8: in a page load (parsing, script evaluation, the ready signal, clicks)
\* neither placeholder is written more than once.
C8_WrittenAtMostOnce ==
    \A id \in {HeaderContainerId, FooterContainerId} : writes[id] <= 1

\* both placeholders written, the page loaded, clicks made since
C8_Witness ==
    /\ writes[HeaderContainerId] = 1 /\ writes[FooterContainerId] = 1
    /\ readyState = "complete"
    /\ evalAt["header"] = "loading" /\ evalAt["footer"] = "interactive"
    /\ lastClick.kind = "link" /\ toggles = 0

\* ------------------------------------------------------------------- C9
PanelInDom == GetElementById(Doc, "mobileMenu") # Null

\* C9: every step that writes the header placeholder leaves the mobile
\* panel in the document and hidden, and after a header mount a hidden
\* panel becomes visible only in a step that is a click on the toggle
\* button.
C9_StartsHidden ==
    [][ /\ writes'[HeaderContainerId] # writes[HeaderContainerId]
              => (PanelInDom' /\ ~ MenuOpen')
        /\ (writes[HeaderContainerId] >= 1 /\ ~ MenuOpen /\ MenuOpen')
              => /\ lastClick'.kind = "toggle"
                 /\ toggles' = toggles + 1
                 /\ writes' = writes ]_vars

\* the header is mounted, a click was made elsewhere, no toggle click is
\* counted and the panel is hidden
C9_Witness ==
    /\ writes[HeaderContainerId] >= 1
    /\ lastClick = [kind |-> "other", open |-> FALSE]
    /\ toggles = 0
    /\ PanelInDom /\ ~ MenuOpen

\* ------------------------------------------------------------------ C10
BothRendered == writes[HeaderContainerId] >= 1 /\ writes[FooterContainerId] >= 1

PanelKeys == { x.key : x \in { y \in Range(dom) : IsMobilePanel(y) } }

InFooter(k) == k = FooterKey \/ FooterKey \in Range(NodeOf(Doc, k).anc)

\* C10: once both placeholders are written, a click on any element leaves
\* the nodes of the document, the listeners, the counts of writes and the
\* class "hidden" of every element but the mobile panel as they were; and
\* a click on the footer placeholder or inside it changes no class list
\* either.
C10_ClicksChangeMenuOnly ==
    [][ BothRendered =>
          \A k \in Keys :
             Click(k) =>
                /\ dom' = dom
                /\ handlers' = handlers
                /\ writes' = writes
                /\ raised' = raised
                /\ hidden' \ PanelKeys = hidden \ PanelKeys
                /\ InFooter(k) => hidden' = hidden ]_vars

\* both rendered, the panel opened by a click on the toggle button
C10_Witness ==
    /\ BothRendered
    /\ lastClick = [kind |-> "toggle", open |-> FALSE]
    /\ MenuOpen
    /\ FooterHasCopyright /\ HeaderContentOK

\* ------------------------------------------------------------------ C11
\* C11: in a page load, while document.readyState is "loading" neither
\* placeholder has been written, no mount function has run and no click
\* listener is registered.
C11_NoMountWhileLoading ==
    readyState = "loading" =>
        /\ writes[HeaderContainerId] = 0
        /\ writes[FooterContainerId] = 0
        /\ \A c \in Components : calls[c] = 0
        /\ handlers = << >>
        /\ \A x \in Range(dom) : IsPageNode(x)

\* still loading with both placeholders parsed, both scripts evaluated and
\* a click made: both mounts wait
C11_Witness ==
    /\ readyState = "loading"
    /\ InDom(Doc, HeaderKey) /\ InDom(Doc, FooterKey)
    /\ listeners = <<"footer", "header">>
    /\ lastClick.kind = "other"
    /\ writes[HeaderContainerId] = 0 /\ writes[FooterContainerId] = 0

\* ------------------------------------------------------------------ C12
\* The steps of FireDOMContentLoaded, told by what they do to fired: no
\* other step of a page load changes it, and FireDOMContentLoaded is
\* enabled exactly when readyState is "interactive" and fired is false.
ReadySignal == readyState = "interactive" /\ ~ fired /\ fired' = TRUE

\* A page load in which the parser reaches the end of the document and
\* DOMContentLoaded is then dispatched.
SpecLive ==
    /\ Init /\ [][NextLoad]_vars
    /\ WF_vars(ParsingDone)
    /\ WF_fired(ReadySignal)

\* the script of c was evaluated while the document was loading, the signal
\* has not fired and the placeholder of c is in the document
Waiting(c) ==
    evalAt[c] = "loading" /\ ~ fired /\ InDom(Doc, Key(PlaceholderId(c), 0))

\* C12: a component whose script was evaluated while the document was
\* loading and whose placeholder is in the document before the ready signal
\* gets its placeholder written eventually; it is written in the very step
\* that dispatches the signal, and until that step the component has done
\* nothing (the wait for the signal is its only suspension).
C12_DeferredMountHappens ==
    /\ \A c \in Components : Waiting(c) ~> (writes[PlaceholderId(c)] = 1)
    /\ [][ \A c \in Components :
             /\ (Waiting(c) /\ fired') =>
                   /\ writes'[PlaceholderId(c)] = 1
                   /\ calls'[c] = 1
                   /\ Content(Key(PlaceholderId(c), 0))' # << >>
             /\ (Waiting(c) /\ ~ fired') =>
                   /\ writes'[PlaceholderId(c)] = 0
                   /\ calls'[c] = 0 ]_vars

\* both mounts were deferred, the signal has fired and both placeholders
\* are written
C12_Witness ==
    /\ evalAt["header"] = "loading" /\ evalAt["footer"] = "loading"
    /\ listeners = <<"footer", "header">>
    /\ fired
    /\ writes[HeaderContainerId] = 1 /\ writes[FooterContainerId] = 1
    /\ HeaderContentOK /\ FooterHasCopyright

\* ------------------------------------------------------------------ C13
\* the nodes of document state d below the element with key k
ContentIn(d, k) == SelectSeq(d.dom, LAMBDA x : k \in Range(x.anc))

\* C13: in every reachable document, (a) loadHeader leaves the footer
\* placeholder, its content and its count of writes as they are;
\* (b) loadFooter leaves the header placeholder's content, its count of
\* writes, every class list outside the footer, the click listeners and
\* the menu visibility as they are; (c) each writes its own placeholder
\* when that placeholder is in the document, whether or not the other's
\* is; (d) running the two in either order gives the same document.
C13_Independent ==
    LET h == LoadHeader(Doc)
        f == LoadFooter(Doc)
    IN  /\ h.writes[FooterContainerId] = writes[FooterContainerId]
        /\ ContentIn(h, FooterKey) = Content(FooterKey)
        /\ InDom(h, FooterKey) <=> InDom(Doc, FooterKey)
        /\ h.calls["footer"] = calls["footer"]
        /\ f.writes[HeaderContainerId] = writes[HeaderContainerId]
        /\ ContentIn(f, HeaderKey) = Content(HeaderKey)
        /\ f.hidden = hidden
        /\ f.handlers = handlers
        /\ MenuVisible(f) <=> MenuOpen
        /\ InDom(Doc, HeaderKey) =>
              /\ h.writes[HeaderContainerId] = writes[HeaderContainerId] + 1
              /\ ContentIn(h, HeaderKey) # << >>
        /\ InDom(Doc, FooterKey) =>
              /\ f.writes[FooterContainerId] = writes[FooterContainerId] + 1
              /\ ContentIn(f, FooterKey) # << >>
        /\ ~ h.raised /\ ~ f.raised
        /\ LoadFooter(h) = LoadHeader(f)

\* both mounts were deferred on the same signal, the header registered
\* first, and both placeholders are written
C13_Witness ==
    /\ listeners = <<"header", "footer">>
    /\ fired
    /\ writes[HeaderContainerId] = 1 /\ writes[FooterContainerId] = 1
    /\ Content(HeaderKey) # << >> /\ Content(FooterKey) # << >>

\* ------------------------------------------------------------------ C14
\* C14: after a header mount and any clicks, the mobile panel is visible
\* exactly when the number of clicks on the toggle button since the last
\* click on a panel link (since the mount, when no link was clicked) is
\* odd; a click on a link of a hidden panel leaves the panel hidden.
C14_VisibleIffOddSinceLink ==
    writes[HeaderContainerId] >= 1 =>
        /\ MenuOpen <=> Odd(toggles)
        /\ (lastClick.kind = "link" /\ ~ lastClick.open) => ~ MenuOpen

\* a link of the hidden panel was clicked and the panel is hidden
C14_Witness ==
    /\ writes[HeaderContainerId] >= 1
    /\ lastClick = [kind |-> "link", open |-> FALSE]
    /\ toggles = 0
    /\ ~ MenuOpen

\* ------------------------------------------------------------------ C15
\* the click listeners registered on the element with key k
ListenersOn(k) == SelectSeq(handlers, LAMBDA h : h.target = k)

\* the page holds no toggle button or mobile panel of its own
OnlyHeaderMenu == page \cap {"pageBtn", "pageMenu"} = {}

\* C15: on a page with no toggle button or mobile panel of its own, after
\* one or more header mounts the toggle button in the document carries
\* exactly one click listener (it toggles the panel in the document), each
\* link of the panel exactly one (it hides that panel), no other element of
\* the document carries any, the listeners of earlier mounts are on
\* elements that are no longer in the document, and one click on the
\* toggle button changes the panel's visibility.
C15_OneListenerPerElement ==
    (OnlyHeaderMenu /\ writes[HeaderContainerId] >= 1) =>
        LET btn   == GetElementById(Doc, "menuBtn")
            panel == GetElementById(Doc, "mobileMenu")
        IN  /\ btn # Null /\ panel # Null
            /\ ListenersOn(btn.key)
                 = << [target |-> btn.key, op |-> "toggle", panel |-> panel.key] >>
            /\ \A x \in Range(dom) :
                 /\ (x.tag = "a" /\ panel.key \in Range(x.anc)) =>
                       ListenersOn(x.key)
                        = << [target |-> x.key, op |-> "add", panel |-> panel.key] >>
                 /\ (x.key # btn.key /\ ~ (x.tag = "a" /\ panel.key \in Range(x.anc)))
                       => ListenersOn(x.key) = << >>
            /\ \A i \in 1..Len(handlers) :
                 handlers[i].target.g < writes[HeaderContainerId]
                    => ~ InDom(Doc, handlers[i].target)
            /\ Len(handlers) = 3 * writes[HeaderContainerId]
            /\ MenuVisible(Dispatch(Doc, <<btn.key>> \o btn.anc)) <=> ~ MenuOpen

\* mounted twice, then one click on the toggle button opened the panel
C15_Witness ==
    /\ OnlyHeaderMenu
    /\ writes[HeaderContainerId] = 2
    /\ Len(handlers) = 6
    /\ lastClick = [kind |-> "toggle", open |-> FALSE]
    /\ toggles = 1 /\ MenuOpen

\* ------------------------------------------------------------------ C16
\* the click listeners registered on elements that are in the document
LiveListeners == SelectSeq(handlers, LAMBDA h : InDom(Doc, h.target))

\* The header as a mount leaves it, whatever the number g of the mount: the
\* placeholder holds the markup of headerHTML, of its elements the mobile
\* panel alone has the class "hidden", and the listeners on elements of
\* the document are the toggle listener and one hiding listener per link.
FreshMount ==
    LET g == writes[HeaderContainerId]
    IN  /\ g >= 1
        /\ Content(HeaderKey) = Parse(HeaderHTML, g, NodeOf(Doc, HeaderKey))
        /\ { k \in hidden : k.g = g /\ InDom(Doc, k) } = {Key("mobileMenu", g)}
        /\ ~ MenuOpen
        /\ LiveListeners =
             << [target |-> Key("menuBtn", g),     op |-> "toggle", panel |-> Key("mobileMenu", g)],
                [target |-> Key("linkHome", g),    op |-> "add",    panel |-> Key("mobileMenu", g)],
                [target |-> Key("linkContact", g), op |-> "add",    panel |-> Key("mobileMenu", g)] >>

\* C16: every step in which loadHeader runs on a document that holds the
\* header placeholder, a first mount or a later one, with the panel visible
\* or hidden before it, ends in the same header state: panel hidden, markup
\* and listeners as after a first mount.
C16_RemountResets ==
    [][ (calls'["header"] > calls["header"] /\ InDom(Doc, HeaderKey))
          => FreshMount' ]_vars

\* the header was mounted again while the panel was visible
C16_Witness ==
    /\ writes[HeaderContainerId] = 2
    /\ lastClick = [kind |-> "none", open |-> TRUE]
    /\ FreshMount

\* ------------------------------------------------------------------ C17
\* the placeholder of component c
Placeholder(c) == Key(PlaceholderId(c), 0)

\* C17: the placeholder is looked up when the mount function runs. In a page
\* load (no call of the mount functions by the page):
\*  - evaluating a script while the document is loading writes nothing,
\*    whether its placeholder is in the document or not;
\*  - when the ready signal fires, a deferred component writes its
\*    placeholder exactly if the placeholder is in the document then,
\*    whether it was there at evaluation or not;
\*  - a script evaluated after loading writes its placeholder exactly if the
\*    placeholder is in the document at evaluation;
\*  - after its one mount has run no later step writes the placeholder, so a
\*    placeholder that was absent when an immediate mount ran stays empty.
C17_LookupAtMount ==
    /\ [] ( \A c \in Components :
              evalAt[c] \in {"interactive", "complete"} =>
                  /\ writes[PlaceholderId(c)] = (IF foundAtEval[c] THEN 1 ELSE 0)
                  /\ ~ foundAtEval[c] => Content(Placeholder(c)) = << >> )
    /\ [][ \A c \in Components :
             /\ (evalAt[c] = "none" /\ evalAt'[c] = "loading") =>
                    writes' = writes /\ dom' = dom
             /\ (evalAt[c] = "none" /\ evalAt'[c] \in {"interactive", "complete"}) =>
                    (writes'[PlaceholderId(c)] = 1 <=> InDom(Doc, Placeholder(c)))
             /\ (evalAt[c] = "loading" /\ ~ fired /\ fired') =>
                    /\ writes'[PlaceholderId(c)] = 1 <=> InDom(Doc, Placeholder(c))
                    /\ InDom(Doc, Placeholder(c)) =>
                          Content(Placeholder(c))' # << >>
             /\ (evalAt[c] \in {"interactive", "complete"} \/
                 (evalAt[c] = "loading" /\ fired)) =>
                    writes'[PlaceholderId(c)] = writes[PlaceholderId(c)] ]_vars

\* the header placeholder was absent when header.js was evaluated and the
\* deferred mount has filled it; the footer placeholder entered the document
\* after the immediate mount of footer.js and is empty
C17_Witness ==
    /\ evalAt["header"] = "loading" /\ ~ foundAtEval["header"]
    /\ fired /\ writes[HeaderContainerId] = 1 /\ HeaderContentOK
    /\ evalAt["footer"] \in {"interactive", "complete"} /\ ~ foundAtEval["footer"]
    /\ calls["footer"] = 1
    /\ InDom(Doc, FooterKey) /\ Content(FooterKey) = << >>
    /\ writes[FooterContainerId] = 0

\* ------------------------------------------------------------------ C18
\* the elements a click on x reaches: x, then its ancestors
ClickPath(x) == <<x.key>> \o x.anc

\* C18: a click on the brand link (or inside it) runs no listener of the
\* header and changes nothing in the document, the visibility of the mobile
\* panel included: no listener is registered on an element the click
\* reaches, and after such a click the panel is visible exactly if it was
\* visible when the click was made.
C18_BrandClickInert ==
    /\ \A x \in Range(dom) :
          ClickKind(Doc, x) = "brand" =>
              /\ \A i \in 1..Len(handlers) :
                    handlers[i].target \notin Range(ClickPath(x))
              /\ Dispatch(Doc, ClickPath(x)) = Doc
    /\ lastClick.kind = "brand" => (MenuOpen <=> lastClick.open)

\* the brand link was clicked while the panel was visible, and the panel is
\* still visible
C18_Witness ==
    /\ writes[HeaderContainerId] >= 1
    /\ \E x \in Range(dom) : IsBrandLink(x)
    /\ lastClick = [kind |-> "brand", open |-> TRUE]
    /\ toggles = 1
    /\ MenuOpen

====
